---- MODULE Spec2Model ----
(***************************************************************************)
(* The NBT decoders of mccfilereader: the two NBTReader classes            *)
(* (complete_mcc_reader.py, snowball_timeline.py), the DetailedNBTReader   *)
(* of find_owner.py and the callers of read_root.                          *)
(*                                                                         *)
(* A reader is a BytesIO stream over a byte buffer: the buffer `data` and  *)
(* the stream position `pos` (an offset, 0 .. Len(data)).  Every method of *)
(* a reader is a function of (data, pos) that yields an outcome: a value   *)
(* or a raised exception, and the position the stream is left at.          *)
(*                                                                         *)
(* Python values are modelled as records tagged by k:                      *)
(*   None            [k |-> "none"]                                        *)
(*   int             [k |-> "int", i |-> n]         (fits 32 bits)         *)
(*                   [k |-> "bigint", hi |-> h, lo |-> <<a, b>>]           *)
(*                      = h * 2^32 + a * 2^16 + b   (does not fit 32 bits) *)
(*   float           [k |-> "float", bits |-> the bytes unpacked]          *)
(*   str             [k |-> "str", s |-> the code points]                  *)
(*   list            [k |-> "list", v |-> the elements]                    *)
(*   [None] * n      [k |-> "nones", n |-> n]       (n >= 1)               *)
(*   dict            [k |-> "dict", e |-> the (name, val) entries in       *)
(*                    insertion order]                                     *)
(***************************************************************************)
EXTENDS Integers, Sequences, FiniteSets, TLC

(***************************************************************************)
(* Tag type codes (complete_mcc_reader.py:15-27).                          *)
(***************************************************************************)
TAG_End == 0
TAG_Byte == 1
TAG_Short == 2
TAG_Int == 3
TAG_Long == 4
TAG_Float == 5
TAG_Double == 6
TAG_Byte_Array == 7
TAG_String == 8
TAG_List == 9
TAG_Compound == 10
TAG_Int_Array == 11
TAG_Long_Array == 12

(***************************************************************************)
(* Python values.                                                          *)
(***************************************************************************)
None == [k |-> "none"]
IntV(n) == [k |-> "int", i |-> n]
FloatV(bytes) == [k |-> "float", bits |-> bytes]
StrV(cps) == [k |-> "str", s |-> cps]
ListV(elems) == [k |-> "list", v |-> elems]
NonesV(n) == [k |-> "nones", n |-> n]
DictV(entries) == [k |-> "dict", e |-> entries]

(***************************************************************************)
(* Outcomes of a call: ok with the value returned, or not ok with the      *)
(* exception raised ("struct.error", "ValueError").  pos is the stream     *)
(* position the call leaves.  Two fields observe the call without being    *)
(* part of what Python returns:                                            *)
(*   depth  the deepest nesting of read_list / read_compound calls that    *)
(*          were active during the call;                                   *)
(*   lax    whether the call went on after a stream.read that returned     *)
(*          fewer bytes than a string declared, after a negative count, or *)
(*          after an unknown tag type.                                     *)
(* seen is the pair of the two: [depth |-> d, lax |-> b].                  *)
(***************************************************************************)
Ok(v, p, seen) ==
    [ok |-> TRUE, val |-> v, err |-> "none", pos |-> p,
     depth |-> seen.depth, lax |-> seen.lax]
Raise(e, p, seen) ==
    [ok |-> FALSE, val |-> None, err |-> e, pos |-> p,
     depth |-> seen.depth, lax |-> seen.lax]

Min(a, b) == IF a < b THEN a ELSE b
Max(a, b) == IF a > b THEN a ELSE b

Clean == [depth |-> 0, lax |-> FALSE]
Lax == [depth |-> 0, lax |-> TRUE]
Seen(r) == [depth |-> r.depth, lax |-> r.lax]
Join(s1, s2) == [depth |-> Max(s1.depth, s2.depth), lax |-> s1.lax \/ s2.lax]

(***************************************************************************)
(* BytesIO.read(n): the next n bytes, fewer when fewer remain, all that    *)
(* remain when n is negative.  The stream advances by what was returned.   *)
(***************************************************************************)
StreamRead(data, pos, n) ==
    IF n < 0 THEN SubSeq(data, pos + 1, Len(data))
    ELSE SubSeq(data, pos + 1, Min(pos + n, Len(data)))

(***************************************************************************)
(* struct.unpack of big-endian integers.  Signed values are computed from  *)
(* the signed top byte so that every intermediate value fits 32 bits.      *)
(***************************************************************************)
SignedByte(b) == IF b >= 128 THEN b - 256 ELSE b
UnpackB(bytes) == bytes[1]
Unpackb(bytes) == SignedByte(bytes[1])
\* struct.unpack('>h', ...): the same two bytes read as a signed number.
UnpackH_Signed(bytes) == SignedByte(bytes[1]) * 256 + bytes[2]

UnpackH(bytes) == bytes[1] * 256 + bytes[2]

Unpackh(bytes) == SignedByte(bytes[1]) * 256 + bytes[2]
\* struct.unpack('<i', ...): the same bytes read least significant first.
Unpacki_LittleEndian(bytes) ==
    SignedByte(bytes[4]) * 16777216 + bytes[3] * 65536 + bytes[2] * 256 + bytes[1]

Unpacki(bytes) ==
    SignedByte(bytes[1]) * 16777216 + bytes[2] * 65536 + bytes[3] * 256 + bytes[4]

Unpackq(bytes) ==
    LET hi == Unpacki(SubSeq(bytes, 1, 4))
        a  == UnpackH(SubSeq(bytes, 5, 6))
        b  == UnpackH(SubSeq(bytes, 7, 8))
    IN  IF hi = 0 /\ a < 32768 THEN IntV(a * 65536 + b)
        ELSE IF hi = -1 /\ a >= 32768 THEN IntV((a - 65536) * 65536 + b)
        ELSE [k |-> "bigint", hi |-> hi, lo |-> <<a, b>>]

(***************************************************************************)
(* bytes.decode('utf-8', errors='replace'): each maximal ill-formed        *)
(* subsequence becomes one U+FFFD.                                         *)
(***************************************************************************)
ReplacementChar == 65533

IsCont(b) == b >= 128 /\ b <= 191

\* The number of continuation bytes a lead byte announces (0: not a lead).
Utf8Need(b) ==
    IF b >= 194 /\ b <= 223 THEN 1
    ELSE IF b >= 224 /\ b <= 239 THEN 2
    ELSE IF b >= 240 /\ b <= 244 THEN 3
    ELSE 0

\* Whether c may follow the lead byte b as its first continuation byte.
Utf8Second(b, c) ==
    IF b = 224 THEN c >= 160 /\ c <= 191
    ELSE IF b = 237 THEN c >= 128 /\ c <= 159
    ELSE IF b = 240 THEN c >= 144 /\ c <= 191
    ELSE IF b = 244 THEN c >= 128 /\ c <= 143
    ELSE IsCont(c)

\* How many of the bytes after position i continue the lead byte at i.
Utf8Have(bytes, i) ==
    LET b == bytes[i]
        need == Utf8Need(b)
        ok1 == need >= 1 /\ i + 1 <= Len(bytes) /\ Utf8Second(b, bytes[i + 1])
        ok2 == ok1 /\ need >= 2 /\ i + 2 <= Len(bytes) /\ IsCont(bytes[i + 2])
        ok3 == ok2 /\ need >= 3 /\ i + 3 <= Len(bytes) /\ IsCont(bytes[i + 3])
    IN  IF ok3 THEN 3 ELSE IF ok2 THEN 2 ELSE IF ok1 THEN 1 ELSE 0

Utf8CodePoint(bytes, i, need) ==
    IF need = 1 THEN (bytes[i] - 192) * 64 + (bytes[i + 1] - 128)
    ELSE IF need = 2 THEN
        (bytes[i] - 224) * 4096 + (bytes[i + 1] - 128) * 64 + (bytes[i + 2] - 128)
    ELSE (bytes[i] - 240) * 262144 + (bytes[i + 1] - 128) * 4096
         + (bytes[i + 2] - 128) * 64 + (bytes[i + 3] - 128)

\* bytes.decode('utf-8', errors='replace'), from the first byte on.
Utf8Decode(bytes) ==
    LET from[i \in 1..(Len(bytes) + 1)] ==
            IF i > Len(bytes) THEN << >>
            ELSE IF bytes[i] < 128 THEN << bytes[i] >> \o from[i + 1]
            ELSE IF Utf8Need(bytes[i]) >= 1 /\ Utf8Have(bytes, i) = Utf8Need(bytes[i])
            THEN << Utf8CodePoint(bytes, i, Utf8Need(bytes[i])) >>
                     \o from[i + 1 + Utf8Need(bytes[i])]
            ELSE << ReplacementChar >> \o from[i + 1 + Utf8Have(bytes, i)]
    IN  from[1]

(***************************************************************************)
(* The primitive reads of NBTReader: struct.unpack of stream.read(n).      *)
(* unpack raises struct.error unless it is handed exactly n bytes; the     *)
(* stream has by then advanced over the bytes that were there.             *)
(***************************************************************************)
read_byte(data, pos) ==
    LET b == StreamRead(data, pos, 1)
    IN  IF Len(b) = 1 THEN Ok(IntV(Unpackb(b)), pos + 1, Clean)
        ELSE Raise("struct.error", pos + Len(b), Clean)

read_ubyte(data, pos) ==
    LET b == StreamRead(data, pos, 1)
    IN  IF Len(b) = 1 THEN Ok(IntV(UnpackB(b)), pos + 1, Clean)
        ELSE Raise("struct.error", pos + Len(b), Clean)

read_short(data, pos) ==
    LET b == StreamRead(data, pos, 2)
    IN  IF Len(b) = 2 THEN Ok(IntV(Unpackh(b)), pos + 2, Clean)
        ELSE Raise("struct.error", pos + Len(b), Clean)

read_int(data, pos) ==
    LET b == StreamRead(data, pos, 4)
    IN  IF Len(b) = 4 THEN Ok(IntV(Unpacki(b)), pos + 4, Clean)
        ELSE Raise("struct.error", pos + Len(b), Clean)

read_long(data, pos) ==
    LET b == StreamRead(data, pos, 8)
    IN  IF Len(b) = 8 THEN Ok(Unpackq(b), pos + 8, Clean)
        ELSE Raise("struct.error", pos + Len(b), Clean)

read_float(data, pos) ==
    LET b == StreamRead(data, pos, 4)
    IN  IF Len(b) = 4 THEN Ok(FloatV(b), pos + 4, Clean)
        ELSE Raise("struct.error", pos + Len(b), Clean)

read_double(data, pos) ==
    LET b == StreamRead(data, pos, 8)
    IN  IF Len(b) = 8 THEN Ok(FloatV(b), pos + 8, Clean)
        ELSE Raise("struct.error", pos + Len(b), Clean)

(***************************************************************************)
(* read_string: the length is unpacked from 2 bytes ('>H'); the payload is *)
(* whatever stream.read(length) returns, decoded.                          *)
(***************************************************************************)
read_string(data, pos) ==
    LET hdr == StreamRead(data, pos, 2)
    IN  IF Len(hdr) # 2 THEN Raise("struct.error", pos + Len(hdr), Clean)
        ELSE LET length == UnpackH(hdr)
                 payload == StreamRead(data, pos + 2, length)
             IN  Ok(StrV(Utf8Decode(payload)), pos + 2 + Len(payload),
                    IF Len(payload) < length THEN Lax ELSE Clean)

(***************************************************************************)
(* result[name] = value on a dict: an existing key keeps its place and     *)
(* takes the new value; a new key goes last.                               *)
(***************************************************************************)
\* A dict in which a key that is already there keeps the value it has.
DictSet_FirstWins(entries, name, val) ==
    IF \E i \in 1..Len(entries) : entries[i].name = name
    THEN entries
    ELSE Append(entries, [name |-> name, val |-> val])

DictSet(entries, name, val) ==
    IF \E i \in 1..Len(entries) : entries[i].name = name
    THEN [i \in 1..Len(entries) |->
            IF entries[i].name = name THEN [name |-> name, val |-> val]
            ELSE entries[i]]
    ELSE Append(entries, [name |-> name, val |-> val])

(***************************************************************************)
(* The else branch of read_tag: complete_mcc_reader.py raises ValueError;  *)
(* snowball_timeline.py has no else branch, so the method falls off its    *)
(* end and returns None.                                                   *)
(***************************************************************************)
UnknownTag_complete(pos) == Raise("ValueError", pos, Clean)
UnknownTag_snowball(pos) == Ok(None, pos, Lax)

RECURSIVE read_tag(_, _, _, _)
RECURSIVE read_list(_, _, _)
RECURSIVE read_compound(_, _, _)
RECURSIVE Comprehension(_, _, _, _, _, _, _)
RECURSIVE CompoundLoop(_, _, _, _, _)

\* A call of read_list or read_compound is one level of nesting.
Nested(r) == [r EXCEPT !.depth = r.depth + 1]

(***************************************************************************)
(* [self.read_tag(tag_type) for _ in range(length)] (and the array         *)
(* comprehensions over read_byte, read_int, read_long, which are           *)
(* read_tag of Byte, Int, Long): n reads in stream order; the first        *)
(* exception ends the whole comprehension.  A read that returns without    *)
(* moving the stream (End, or an unknown type in snowball_timeline.py)     *)
(* returns the same None n times: the list [None] * n is kept as NonesV,   *)
(* since n is any positive 32-bit count.  acc holds the elements read so   *)
(* far, seen what was observed so far, r the outcome of the next read.    *)
(***************************************************************************)
\* A comprehension that puts each new element in front of the earlier ones.
ComprehensionNext_Reversed(cls, data, pos, t, n, acc, seen, r) ==
    IF ~r.ok THEN Raise(r.err, r.pos, Join(seen, Seen(r)))
    ELSE IF r.pos = pos THEN Ok(NonesV(n), pos, Join(seen, Seen(r)))
    ELSE Comprehension(cls, data, r.pos, t, n - 1, << r.val >> \o acc, Join(seen, Seen(r)))

ComprehensionNext(cls, data, pos, t, n, acc, seen, r) ==
    IF ~r.ok THEN Raise(r.err, r.pos, Join(seen, Seen(r)))
    ELSE IF r.pos = pos THEN Ok(NonesV(n), pos, Join(seen, Seen(r)))
    ELSE Comprehension(cls, data, r.pos, t, n - 1, Append(acc, r.val),
                       Join(seen, Seen(r)))

Comprehension(cls, data, pos, t, n, acc, seen) ==
    IF n <= 0 THEN Ok(ListV(acc), pos, seen)
    ELSE ComprehensionNext(cls, data, pos, t, n, acc, seen,
                           read_tag(cls, data, pos, t))

\* The comprehension over range(length), length being the outcome of read_int.
Counted(cls, data, t, length) ==
    IF ~length.ok THEN length
    ELSE Comprehension(cls, data, length.pos, t, length.val.i, << >>,
                       IF length.val.i < 0 THEN Lax ELSE Clean)

\* An array branch that reads every element as a byte, whatever the array.
ReadArray_Bytes(cls, data, pos, t) == Counted(cls, data, TAG_Byte, read_int(data, pos))

\* An array branch of read_tag: length = self.read_int(), then the elements.
ReadArray(cls, data, pos, t) == Counted(cls, data, t, read_int(data, pos))

read_tag(cls, data, pos, tag_type) ==
    IF tag_type = TAG_End THEN Ok(None, pos, Clean)
    ELSE IF tag_type = TAG_Byte THEN read_byte(data, pos)
    ELSE IF tag_type = TAG_Short THEN read_short(data, pos)
    ELSE IF tag_type = TAG_Int THEN read_int(data, pos)
    ELSE IF tag_type = TAG_Long THEN read_long(data, pos)
    ELSE IF tag_type = TAG_Float THEN read_float(data, pos)
    ELSE IF tag_type = TAG_Double THEN read_double(data, pos)
    ELSE IF tag_type = TAG_Byte_Array THEN ReadArray(cls, data, pos, TAG_Byte)
    ELSE IF tag_type = TAG_String THEN read_string(data, pos)
    ELSE IF tag_type = TAG_List THEN read_list(cls, data, pos)
    ELSE IF tag_type = TAG_Compound THEN read_compound(cls, data, pos)
    ELSE IF tag_type = TAG_Int_Array THEN ReadArray(cls, data, pos, TAG_Int)
    ELSE IF tag_type = TAG_Long_Array THEN ReadArray(cls, data, pos, TAG_Long)
    ELSE IF cls = "complete" THEN UnknownTag_complete(pos)
    ELSE UnknownTag_snowball(pos)

\* read_list after tag_type = self.read_ubyte(): length = self.read_int().
\* A read_list that refuses an element type outside 0..12 before the count.
ListOfType_CheckedType(cls, data, tag_type) ==
    IF ~tag_type.ok THEN tag_type
    ELSE IF tag_type.val.i \notin 0..12
    THEN Raise("ValueError", tag_type.pos, Clean)
    ELSE Counted(cls, data, tag_type.val.i, read_int(data, tag_type.pos))

ListOfType(cls, data, tag_type) ==
    IF ~tag_type.ok THEN tag_type
    ELSE Counted(cls, data, tag_type.val.i, read_int(data, tag_type.pos))

read_list(cls, data, pos) == Nested(ListOfType(cls, data, read_ubyte(data, pos)))

(***************************************************************************)
(* The while True loop of read_compound: result is the dict so far, seen   *)
(* what was observed so far.  One iteration reads tag_type (CompoundLoop),     *)
(* breaks on End or reads the name (CompoundEntry), reads the value        *)
(* (CompoundValue) and stores it (CompoundStore).                          *)
(***************************************************************************)
CompoundStore(cls, data, result, seen, name, v) ==
    IF ~v.ok THEN Raise(v.err, v.pos, Join(seen, Seen(v)))
    ELSE CompoundLoop(cls, data, v.pos, DictSet(result, name, v.val),
                      Join(seen, Seen(v)))

CompoundValue(cls, data, result, seen, t, name) ==
    IF ~name.ok THEN Raise(name.err, name.pos, seen)
    ELSE CompoundStore(cls, data, result, Join(seen, Seen(name)), name.val,
                       read_tag(cls, data, name.pos, t))

\* A compound whose End type byte is followed by a name, like every other entry.
CompoundEntry_NamedEnd(cls, data, result, seen, tag_type) ==
    IF ~tag_type.ok THEN Raise(tag_type.err, tag_type.pos, seen)
    ELSE IF tag_type.val.i = TAG_End
    THEN Ok(DictV(result), read_string(data, tag_type.pos).pos, seen)
    ELSE CompoundValue(cls, data, result, seen, tag_type.val.i,
                       read_string(data, tag_type.pos))

CompoundEntry(cls, data, result, seen, tag_type) ==
    IF ~tag_type.ok THEN Raise(tag_type.err, tag_type.pos, seen)
    ELSE IF tag_type.val.i = TAG_End THEN Ok(DictV(result), tag_type.pos, seen)
    ELSE CompoundValue(cls, data, result, seen, tag_type.val.i,
                       read_string(data, tag_type.pos))

CompoundLoop(cls, data, pos, result, seen) ==
    CompoundEntry(cls, data, result, seen, read_ubyte(data, pos))

read_compound(cls, data, pos) == Nested(CompoundLoop(cls, data, pos, << >>, Clean))

(***************************************************************************)
(* read_root: tag_type = self.read_ubyte() (read_root); None on End, else  *)
(* name = self.read_string() (RootOfType); data = self.read_tag(tag_type)  *)
(* (RootNamed); return {name: data} (RootResult).                          *)
(***************************************************************************)
\* A read_root that returns data instead of {name: data}.
RootResult_Bare(name, r) ==
    IF ~r.ok THEN Raise(r.err, r.pos, Join(Seen(name), Seen(r)))
    ELSE Ok(r.val, r.pos, Join(Seen(name), Seen(r)))

RootResult(name, r) ==
    IF ~r.ok THEN Raise(r.err, r.pos, Join(Seen(name), Seen(r)))
    ELSE Ok(DictV(<< [name |-> name.val, val |-> r.val] >>), r.pos,
            Join(Seen(name), Seen(r)))

RootNamed(cls, data, t, name) ==
    IF ~name.ok THEN name
    ELSE RootResult(name, read_tag(cls, data, name.pos, t))

\* A read_root without the TAG_End test: the name is read after any type byte.
RootOfType_NoEnd(cls, data, tag_type) ==
    IF ~tag_type.ok THEN tag_type
    ELSE RootNamed(cls, data, tag_type.val.i, read_string(data, tag_type.pos))

RootOfType(cls, data, tag_type) ==
    IF ~tag_type.ok THEN tag_type
    ELSE IF tag_type.val.i = TAG_End THEN Ok(None, tag_type.pos, Clean)
    ELSE RootNamed(cls, data, tag_type.val.i, read_string(data, tag_type.pos))

read_root(cls, data, pos) == RootOfType(cls, data, read_ubyte(data, pos))

(***************************************************************************)
(* find_owner.DetailedNBTReader: read_ubyte, read_int, read_long and       *)
(* read_string are the code of NBTReader; skip_tag and skip_compound pass  *)
(* over a tag.  skip_tag drops the result of stream.read(n) unseen: a      *)
(* short read raises nothing, and a negative n reads all that is left.     *)
(* A skip loop whose element skip consumes nothing and returns leaves the  *)
(* reader as it was, so the iterations after it do the same.               *)
(***************************************************************************)
\* self.stream.read(n), result dropped.
Skipped(data, pos, n) ==
    Ok(None, pos + Len(StreamRead(data, pos, n)),
       IF n < 0 \/ Len(StreamRead(data, pos, n)) < n THEN Lax ELSE Clean)

\* length * width as a read size: a size beyond the buffer reads what a
\* size of Len(data) + 1 reads, so the product is not formed for it.
Times(length, width, data) ==
    IF length < 0 THEN length
    ELSE IF length > Len(data) THEN Len(data) + 1
    ELSE length * width

SkipArray(data, width, length) ==
    IF ~length.ok THEN length
    ELSE Skipped(data, length.pos, Times(length.val.i, width, data))

SkipString(r) ==
    IF ~r.ok THEN r ELSE Ok(None, r.pos, Seen(r))

RECURSIVE skip_tag(_, _, _)
RECURSIVE skip_compound(_, _)
RECURSIVE SkipLoop(_, _, _, _, _)
RECURSIVE SkipCompoundLoop(_, _, _)

SkipLoopNext(data, pos, t, n, seen, r) ==
    IF ~r.ok THEN Raise(r.err, r.pos, Join(seen, Seen(r)))
    ELSE IF r.pos = pos THEN Ok(None, pos, Join(seen, Seen(r)))
    ELSE SkipLoop(data, r.pos, t, n - 1, Join(seen, Seen(r)))

SkipLoop(data, pos, t, n, seen) ==
    IF n <= 0 THEN Ok(None, pos, seen)
    ELSE SkipLoopNext(data, pos, t, n, seen, skip_tag(data, pos, t))

SkipCounted(data, t, length) ==
    IF ~length.ok THEN length
    ELSE SkipLoop(data, length.pos, t, length.val.i,
                  IF length.val.i < 0 THEN Lax ELSE Clean)

SkipListOfType(data, list_type) ==
    IF ~list_type.ok THEN list_type
    ELSE SkipCounted(data, list_type.val.i, read_int(data, list_type.pos))

skip_tag(data, pos, tag_type) ==
    IF tag_type = TAG_End THEN Ok(None, pos, Clean)
    ELSE IF tag_type = TAG_Byte THEN Skipped(data, pos, 1)
    ELSE IF tag_type = TAG_Short THEN Skipped(data, pos, 2)
    ELSE IF tag_type = TAG_Int THEN Skipped(data, pos, 4)
    ELSE IF tag_type = TAG_Long THEN Skipped(data, pos, 8)
    ELSE IF tag_type = TAG_Float THEN Skipped(data, pos, 4)
    ELSE IF tag_type = TAG_Double THEN Skipped(data, pos, 8)
    ELSE IF tag_type = TAG_Byte_Array THEN SkipArray(data, 1, read_int(data, pos))
    ELSE IF tag_type = TAG_String THEN SkipString(read_string(data, pos))
    ELSE IF tag_type = TAG_List THEN Nested(SkipListOfType(data, read_ubyte(data, pos)))
    ELSE IF tag_type = TAG_Compound THEN skip_compound(data, pos)
    ELSE IF tag_type = TAG_Int_Array THEN SkipArray(data, 4, read_int(data, pos))
    ELSE IF tag_type = TAG_Long_Array THEN SkipArray(data, 8, read_int(data, pos))
    ELSE Ok(None, pos, Lax)

SkipCompoundValue(data, seen, v) ==
    IF ~v.ok THEN Raise(v.err, v.pos, Join(seen, Seen(v)))
    ELSE SkipCompoundLoop(data, v.pos, Join(seen, Seen(v)))

SkipCompoundName(data, seen, t, name) ==
    IF ~name.ok THEN Raise(name.err, name.pos, seen)
    ELSE SkipCompoundValue(data, Join(seen, Seen(name)), skip_tag(data, name.pos, t))

SkipCompoundEntry(data, seen, tag_type) ==
    IF ~tag_type.ok THEN Raise(tag_type.err, tag_type.pos, seen)
    ELSE IF tag_type.val.i = TAG_End THEN Ok(None, tag_type.pos, seen)
    ELSE SkipCompoundName(data, seen, tag_type.val.i, read_string(data, tag_type.pos))

SkipCompoundLoop(data, pos, seen) ==
    SkipCompoundEntry(data, seen, read_ubyte(data, pos))

skip_compound(data, pos) == Nested(SkipCompoundLoop(data, pos, Clean))

(***************************************************************************)
(* find_owner.py: DetailedNBTReader.search_for_owners and search_compound. *)
(* Names are sequences of code points.  str.lower() is modelled on the     *)
(* letters A..Z, which is all the names of the buffers below hold.         *)
(***************************************************************************)
Lower(cps) == [i \in 1..Len(cps) |-> IF cps[i] \in 65..90 THEN cps[i] + 32 ELSE cps[i]]

\* keyword in name
Contains(name, keyword) ==
    \E i \in 0..(Len(name) - Len(keyword)) :
        SubSeq(name, i + 1, i + Len(keyword)) = keyword

\* ['owner', 'thrower', 'source', 'player']
Keywords ==
    { << 111, 119, 110, 101, 114 >>, << 116, 104, 114, 111, 119, 101, 114 >>,
      << 115, 111, 117, 114, 99, 101 >>, << 112, 108, 97, 121, 101, 114 >> }

\* The keyword test without lower(): the name as it is written.
IsOwnerName_CaseSensitive(name) == \E keyword \in Keywords : Contains(name.s, keyword)

\* any(keyword in name.lower() for keyword in [...])
IsOwnerName(name) == \E keyword \in Keywords : Contains(Lower(name.s), keyword)

max_depth == 20
RecurseBelow == 5

(***************************************************************************)
(* The state a search carries: the stream position and player_info, and    *)
(* four fields that observe the run without being part of the program:     *)
(*   types    the tag type of each entry appended to player_info;          *)
(*   deepest  the greatest depth at which search_compound ran its loop;    *)
(*   guarded  whether the depth > max_depth return was taken;              *)
(*   ended    how the innermost call last left its loop: "break" on an End *)
(*            byte, "except" on a caught exception, "guard" on the depth   *)
(*            guard, "return" on a root type that is not Compound;         *)
(*   strayed  whether a nested search_compound came back to the loop other *)
(*            than by its break, or a nested compound's search or skip     *)
(*            came back at a position that is not just after a zero byte.  *)
(***************************************************************************)
Searching(p, info) ==
    [pos |-> p, info |-> info, types |-> << >>, deepest |-> -1,
     guarded |-> FALSE, ended |-> "return", strayed |-> FALSE]

\* The byte before position p is an End byte.
AfterEnd(data, p) == p >= 1 /\ p <= Len(data) /\ data[p] = TAG_End

\* The except clauses: the exception ends the loop, the call returns.
Swallowed(s, r) == [s EXCEPT !.pos = r.pos, !.ended = "except"]

RECURSIVE search_compound(_, _, _)
RECURSIVE SearchLoop(_, _, _)

\* self.player_info.append({name: value})
Found(data, s, depth, t, name, value) ==
    IF ~value.ok THEN Swallowed(s, value)
    ELSE SearchLoop(data, [s EXCEPT !.pos = value.pos,
                                    !.info = Append(@, DictV(DictSet(<< >>, name, value.val))),
                                    !.types = Append(@, t)], depth)

\* self.skip_tag(tag_type) / self.skip_compound() inside the loop.
SearchSkipped(data, s, depth, t, r) ==
    IF ~r.ok THEN Swallowed(s, r)
    ELSE SearchLoop(data, [s EXCEPT !.pos = r.pos,
                                    !.strayed = @ \/ (t = TAG_Compound /\ ~AfterEnd(data, r.pos))],
                    depth)

\* Back in the loop after self.search_compound(depth + 1, max_depth).
SearchNested(data, depth, n) ==
    SearchLoop(data, [n EXCEPT !.strayed = @ \/ n.ended # "break" \/ ~AfterEnd(data, n.pos)],
               depth)

SearchEntry(data, s, depth, t, name) ==
    IF ~name.ok THEN Swallowed(s, name)
    ELSE IF IsOwnerName(name.val)
    THEN IF t = TAG_String
         THEN Found(data, s, depth, t, name.val, read_string(data, name.pos))
         ELSE IF t = TAG_Int
         THEN Found(data, s, depth, t, name.val, read_int(data, name.pos))
         ELSE IF t = TAG_Long
         THEN Found(data, s, depth, t, name.val, read_long(data, name.pos))
         ELSE SearchSkipped(data, s, depth, t, skip_tag(data, name.pos, t))
    ELSE IF t = TAG_Compound
    THEN IF depth < RecurseBelow
         THEN SearchNested(data, depth,
                           search_compound(data, [s EXCEPT !.pos = name.pos], depth + 1))
         ELSE SearchSkipped(data, s, depth, t, skip_compound(data, name.pos))
    ELSE SearchSkipped(data, s, depth, t, skip_tag(data, name.pos, t))

SearchType(data, s, depth, tag_type) ==
    IF ~tag_type.ok THEN Swallowed(s, tag_type)
    ELSE IF tag_type.val.i = 0 THEN [s EXCEPT !.pos = tag_type.pos, !.ended = "break"]
    ELSE SearchEntry(data, s, depth, tag_type.val.i, read_string(data, tag_type.pos))

\* One pass of the while True loop, and through it the rest of the loop.
SearchLoop(data, s, depth) == SearchType(data, s, depth, read_ubyte(data, s.pos))

search_compound(data, s, depth) ==
    IF depth > max_depth THEN [s EXCEPT !.guarded = TRUE, !.ended = "guard"]
    ELSE SearchLoop(data, [s EXCEPT !.deepest = Max(@, depth)], depth)

SearchRoot(data, s, root_name) ==
    IF ~root_name.ok THEN Swallowed(s, root_name)
    ELSE search_compound(data, [s EXCEPT !.pos = root_name.pos], 0)

SearchRootType(data, s, root_type) ==
    IF ~root_type.ok THEN Swallowed(s, root_type)
    ELSE IF root_type.val.i # 10 THEN [s EXCEPT !.pos = root_type.pos]
    ELSE SearchRoot(data, s, read_string(data, root_type.pos))

\* search_for_owners returns None and raises nothing: its try catches Exception.
search_for_owners(data, p, info) ==
    SearchRootType(data, Searching(p, info), read_ubyte(data, p))

(***************************************************************************)
(* Python truthiness (the `if not nbt_data` of analyze_mcc_file).          *)
(***************************************************************************)
Truthy(v) ==
    IF v.k = "none" THEN FALSE
    ELSE IF v.k = "int" THEN v.i # 0
    ELSE IF v.k = "str" THEN Len(v.s) > 0
    ELSE IF v.k = "list" THEN Len(v.v) > 0
    ELSE IF v.k = "dict" THEN Len(v.e) > 0
    ELSE TRUE

(***************************************************************************)
(* analyze_mcc_file, from the decompressed bytes on: a new NBTReader, one  *)
(* read_root; any exception sets nbt_data to None; a falsy nbt_data is     *)
(* reported as "Could not parse NBT data" and the function returns;        *)
(* otherwise the extraction runs.                                          *)
(***************************************************************************)
AnalysisOf(r) ==
    IF ~Truthy(IF r.ok THEN r.val ELSE None) THEN "could_not_parse" ELSE "extract"

analyze_mcc_file(data) == AnalysisOf(read_root("complete", data, 0))

(***************************************************************************)
(* The buffers handed to the readers: up to MaxChunks fragments of the     *)
(* wire format, each one of Chunks, laid end to end.                       *)
(***************************************************************************)
MaxChunks == 3

Chunks ==
    { << 0 >>, << 8 >>, << 9 >>, << 10 >>, << 13 >>,
      << 0, 0 >>, << 8, 0, 0 >>, << 9, 0, 0 >>, << 10, 0, 0 >>, << 0, 1, 97 >>,
      << 0, 0, 0, 2 >>, << 255, 255, 255, 255 >> }

RECURSIVE Flatten(_)
Flatten(chunks) ==
    IF chunks = << >> THEN << >> ELSE Head(chunks) \o Flatten(Tail(chunks))

Buffers ==
    { Flatten(cs) : cs \in UNION { [1..n -> Chunks] : n \in 0..MaxChunks } }

TagTypes == 0..13
Classes == { "complete", "snowball" }

(***************************************************************************)
(* State: the buffer, the class of the reader constructed over it, the     *)
(* position of its stream, and the last call made with its outcome.        *)
(***************************************************************************)
\* data, cls: the file's bytes and the reader class in use;
\* pos: the reader's stream position; last: the call made and its outcome;
\* runs: the decodes made so far (two-decode specification);
\* stack, ret: the call stack of a read_root in progress and the value a
\* callee has just returned (statement-by-statement specification).
\* player_info: the list DetailedNBTReader collects its findings in.
VARIABLES data, cls, pos, last, runs, stack, ret, player_info

vars == << data, cls, pos, last, runs, stack, ret, player_info >>

NoRet == [k |-> "noret"]

NoCall ==
    [op |-> "none", arg |-> 0, start |-> 0, out |-> Ok(None, 0, Clean), path |-> "none"]

Called(op, arg, start, out) ==
    [op |-> op, arg |-> arg, start |-> start, out |-> out, path |-> "none"]

\* NBTReader.__init__: a fresh stream over the data, at position 0.
Init ==
    /\ data \in Buffers
    /\ cls \in Classes
    /\ pos = 0
    /\ last = NoCall
    /\ runs = << >>
    /\ stack = << >>
    /\ ret = NoRet
    /\ player_info = << >>

Fresh == last.op = "none"

\* A method call on the reader: the stream is left where the call left it.
Method(op, arg, out) ==
    /\ Fresh
    /\ last' = Called(op, arg, pos, out)
    /\ pos' = out.pos
    /\ UNCHANGED << data, cls, runs, stack, ret, player_info >>

Call_read_byte == Method("read_byte", 0, read_byte(data, pos))
Call_read_ubyte == Method("read_ubyte", 0, read_ubyte(data, pos))
Call_read_short == Method("read_short", 0, read_short(data, pos))
Call_read_int == Method("read_int", 0, read_int(data, pos))
Call_read_long == Method("read_long", 0, read_long(data, pos))
Call_read_float == Method("read_float", 0, read_float(data, pos))
Call_read_double == Method("read_double", 0, read_double(data, pos))
Call_read_string == Method("read_string", 0, read_string(data, pos))
Call_read_tag == \E t \in TagTypes : Method("read_tag", t, read_tag(cls, data, pos, t))
Call_read_list == Method("read_list", 0, read_list(cls, data, pos))
Call_read_compound == Method("read_compound", 0, read_compound(cls, data, pos))
Call_read_root == Method("read_root", 0, read_root(cls, data, pos))

\* analyze_mcc_file builds its own reader (complete_mcc_reader.NBTReader).
Analyzed(out) ==
    /\ Fresh
    /\ cls = "complete"
    /\ last' = [op |-> "analyze_mcc_file", arg |-> 0, start |-> 0,
                out |-> out, path |-> AnalysisOf(out)]
    /\ pos' = out.pos
    /\ UNCHANGED << data, cls, runs, stack, ret, player_info >>

Call_analyze_mcc_file == Analyzed(read_root("complete", data, 0))

Next ==
    \/ Call_read_byte
    \/ Call_read_ubyte
    \/ Call_read_short
    \/ Call_read_int
    \/ Call_read_long
    \/ Call_read_float
    \/ Call_read_double
    \/ Call_read_string
    \/ Call_read_tag
    \/ Call_read_list
    \/ Call_read_compound
    \/ Call_read_root
    \/ Call_analyze_mcc_file

Spec == Init /\ [][Next]_vars

(***************************************************************************)
(* Two or more decodes of one buffer.  NBTReader(data) wraps the bytes in  *)
(* a new BytesIO, whose position is 0 whatever an earlier reader did; a    *)
(* reader that is used again goes on from where its stream stands.         *)
(***************************************************************************)
MaxRuns == 3

\* A constructor that keeps the stream of the reader before it.
NBTReader_init_SharedStream(stream_pos) == stream_pos

NBTReader_init(stream_pos) == 0

Construct ==
    /\ Len(runs) < MaxRuns
    /\ pos' = NBTReader_init(pos)
    /\ last' = NoCall
    /\ UNCHANGED << data, cls, runs, stack, ret, player_info >>

Decoded(out) ==
    /\ Len(runs) < MaxRuns
    /\ last' = Called("read_root", 0, pos, out)
    /\ pos' = out.pos
    /\ runs' = Append(runs, [fresh |-> Fresh, out |-> out])
    /\ UNCHANGED << data, cls, stack, ret, player_info >>

Decode == Decoded(read_root(cls, data, pos))

NextTwice ==
    \/ Construct
    \/ Decode

SpecTwice == Init /\ [][NextTwice]_vars

(***************************************************************************)
(* read_root statement by statement.  The stack holds one frame per active *)
(* read_root, read_compound or list comprehension (read_list and the three *)
(* array branches of read_tag); read_tag itself only dispatches.  A frame  *)
(* waits at pc; a callee that returns leaves its value in ret.  An         *)
(* exception leaves read_root at once: no method catches anything.         *)
(* A comprehension whose element read consumes nothing and returns         *)
(* (TAG_End, or an unknown type in snowball_timeline) repeats that same    *)
(* read range(n) times: those n iterations are taken in one step.          *)
(***************************************************************************)
Frame(fn, pc) ==
    [fn |-> fn, pc |-> pc, t |-> 0, name |-> None, result |-> << >>,
     n |-> 0, acc |-> << >>, at |-> 0]

LoopFrame(t, n) == [Frame("comprehension", "next") EXCEPT !.t = t, !.n = n]

Top == stack[Len(stack)]

Pop == SubSeq(stack, 1, Len(stack) - 1)

Replace(fr) == [stack EXCEPT ![Len(stack)] = fr]

At(fn, pc) == stack # << >> /\ Top.fn = fn /\ Top.pc = pc

InitRun ==
    /\ data \in Buffers
    /\ cls \in Classes
    /\ pos = 0
    /\ last = NoCall
    /\ runs = << >>
    /\ stack = << Frame("read_root", "type") >>
    /\ ret = NoRet
    /\ player_info = << >>

\* read_root is over: its outcome goes to the caller.
Finish(out) ==
    /\ stack' = << >>
    /\ ret' = NoRet
    /\ pos' = out.pos
    /\ last' = Called("read_root", 0, 0, out)
    /\ UNCHANGED << data, cls, runs, player_info >>

\* An exception that is swallowed where it is raised: the statement is retried.
Fail_Retry(r) == UNCHANGED vars

\* An exception raised by a primitive read or by read_tag's else branch.
Fail(r) == Finish(Raise(r.err, r.pos, Clean))

Goto(stk, p, v) ==
    /\ stack' = stk
    /\ pos' = p
    /\ ret' = v
    /\ UNCHANGED << data, cls, last, runs, player_info >>

EnterLoop(stk, t, length) ==
    IF ~length.ok THEN Fail(length)
    ELSE Goto(Append(stk, LoopFrame(t, length.val.i)), length.pos, NoRet)

EnterList(stk, tag_type) ==
    IF ~tag_type.ok THEN Fail(tag_type)
    ELSE EnterLoop(stk, tag_type.val.i, read_int(data, tag_type.pos))

Leaf(stk, r) ==
    IF ~r.ok THEN Fail(r) ELSE Goto(stk, r.pos, r.val)

\* self.read_tag(t), made by the frame on top of stk.
CallTag(stk, t) ==
    IF t = TAG_Compound THEN Goto(Append(stk, Frame("read_compound", "type")), pos, NoRet)
    ELSE IF t = TAG_List THEN EnterList(stk, read_ubyte(data, pos))
    ELSE IF t = TAG_Byte_Array THEN EnterLoop(stk, TAG_Byte, read_int(data, pos))
    ELSE IF t = TAG_Int_Array THEN EnterLoop(stk, TAG_Int, read_int(data, pos))
    ELSE IF t = TAG_Long_Array THEN EnterLoop(stk, TAG_Long, read_int(data, pos))
    ELSE Leaf(stk, read_tag(cls, data, pos, t))

RootTyped(tag_type) ==
    IF ~tag_type.ok THEN Fail(tag_type)
    ELSE IF tag_type.val.i = TAG_End THEN Finish(Ok(None, tag_type.pos, Clean))
    ELSE Goto(Replace([Top EXCEPT !.pc = "name", !.t = tag_type.val.i]), tag_type.pos, NoRet)

Named(name) ==
    IF ~name.ok THEN Fail(name)
    ELSE Goto(Replace([Top EXCEPT !.pc = "value", !.name = name.val]), name.pos, NoRet)

CompoundTyped(tag_type) ==
    IF ~tag_type.ok THEN Fail(tag_type)
    ELSE IF tag_type.val.i = TAG_End THEN Goto(Pop, tag_type.pos, DictV(Top.result))
    ELSE Goto(Replace([Top EXCEPT !.pc = "name", !.t = tag_type.val.i]), tag_type.pos, NoRet)

Root_Type == At("read_root", "type") /\ RootTyped(read_ubyte(data, pos))

Root_Name == At("read_root", "name") /\ Named(read_string(data, pos))

Root_Value ==
    At("read_root", "value") /\ CallTag(Replace([Top EXCEPT !.pc = "return"]), Top.t)

Root_Return ==
    /\ At("read_root", "return")
    /\ Finish(Ok(DictV(<< [name |-> Top.name, val |-> ret] >>), pos, Clean))

Compound_Type == At("read_compound", "type") /\ CompoundTyped(read_ubyte(data, pos))

Compound_Name == At("read_compound", "name") /\ Named(read_string(data, pos))

Compound_Value ==
    At("read_compound", "value") /\ CallTag(Replace([Top EXCEPT !.pc = "store"]), Top.t)

Compound_Store ==
    /\ At("read_compound", "store")
    /\ Goto(Replace([Top EXCEPT !.pc = "type",
                                !.result = DictSet(Top.result, Top.name, ret)]),
            pos, NoRet)

Loop_Element ==
    /\ At("comprehension", "next")
    /\ Top.n > 0
    /\ CallTag(Replace([Top EXCEPT !.pc = "append", !.at = pos]), Top.t)

Loop_Append ==
    /\ At("comprehension", "append")
    /\ IF pos = Top.at THEN Goto(Pop, pos, NonesV(Top.n))
       ELSE Goto(Replace([Top EXCEPT !.pc = "next", !.n = Top.n - 1,
                                     !.acc = Append(Top.acc, ret)]),
                 pos, NoRet)

Loop_Done ==
    /\ At("comprehension", "next")
    /\ Top.n <= 0
    /\ Goto(Pop, pos, ListV(Top.acc))

NextRun ==
    \/ Root_Type
    \/ Root_Name
    \/ Root_Value
    \/ Root_Return
    \/ Compound_Type
    \/ Compound_Name
    \/ Compound_Value
    \/ Compound_Store
    \/ Loop_Element
    \/ Loop_Append
    \/ Loop_Done

\* The interpreter goes on running the call as long as a statement is left.
SpecRun == InitRun /\ [][NextRun]_vars /\ WF_vars(NextRun)

Done == stack = << >> /\ last.op = "read_root"

(***************************************************************************)
(* Buffers that hold one well-formed payload for a method: a number, a     *)
(* list or an array of up to MaxCount elements, a compound of up to        *)
(* MaxEntries entries.  A reader is made over each and one method called.  *)
(***************************************************************************)
MaxCount == 3

MaxEntries == 3

Words ==
    { << 0, 0, 0, 42 >>, << 0, 0, 1, 0 >>, << 127, 255, 255, 255 >>,
      << 128, 0, 0, 0 >>, << 255, 255, 255, 214 >> }

NumberBuffers ==
    { << b >> : b \in { 0, 42, 127, 128, 214, 255 } }
        \cup { << a, b >> : a \in { 0, 1, 127, 128, 255 }, b \in { 0, 42, 255 } }
        \cup Words
        \cup { hi \o lo : hi \in Words \cup { << 0, 0, 0, 0 >>, << 255, 255, 255, 255 >> },
                          lo \in Words }

\* Well-formed payloads of one element of a type.
Payloads(t) ==
    IF t = TAG_Byte THEN { << 42 >>, << 214 >> }
    ELSE IF t = TAG_Int THEN { << 0, 0, 0, 42 >>, << 0, 0, 1, 0 >>, << 255, 255, 255, 214 >> }
    ELSE IF t = TAG_Long
    THEN { << 0, 0, 0, 0, 0, 0, 0, 42 >>, << 255, 255, 255, 255, 255, 255, 255, 214 >>,
           << 0, 0, 0, 1, 0, 0, 0, 0 >> }
    ELSE IF t = TAG_String THEN { << 0, 0 >>, << 0, 1, 97 >> }
    ELSE IF t = TAG_Compound THEN { << 0 >>, << 1, 0, 1, 97, 5, 0 >> }
    ELSE { }

Be32(n) == << 0, 0, 0, n >>

\* count, then that many payloads of type t.
CountedBuffers(t) ==
    { Be32(n) \o Flatten(f) : n \in 0..MaxCount, f \in
          UNION { [1..k -> Payloads(t)] : k \in 0..MaxCount } }

ListBuffers ==
    UNION { { << t >> \o b : b \in CountedBuffers(t) } :
                t \in { TAG_Byte, TAG_Int, TAG_String, TAG_Compound } }

ArrayBuffers == CountedBuffers(TAG_Byte) \cup CountedBuffers(TAG_Int) \cup CountedBuffers(TAG_Long)

\* Compound entries: type, name, payload.
Names == { << 0, 1, 97 >>, << 0, 1, 98 >> }

EntryBuffers ==
    { << TAG_Byte >> \o n \o v : n \in Names, v \in { << 5 >>, << 7 >> } }
        \cup { << TAG_Compound >> \o n \o << 0 >> : n \in Names }

CompoundBuffers ==
    { Flatten(f) \o tail : f \in UNION { [1..k -> EntryBuffers] : k \in 0..MaxEntries },
                           tail \in { << 0 >>, << 0, 9 >> } }

TagBuffers == NumberBuffers \cup ListBuffers \cup ArrayBuffers \cup CompoundBuffers

InitTags ==
    /\ data \in TagBuffers
    /\ cls \in Classes
    /\ pos = 0
    /\ last = NoCall
    /\ runs = << >>
    /\ stack = << >>
    /\ ret = NoRet
    /\ player_info = << >>

SpecTags == InitTags /\ [][Next]_vars

(***************************************************************************)
(* Any sequence of method calls on one reader of any of the three classes. *)
(* A call that raised leaves the reader usable: the next call goes on from *)
(* where the stream stands.  search_for_owners and search_compound are not *)
(* among the calls.                                                        *)
(***************************************************************************)
Readers == Classes \cup { "detailed" }

\* A stream that a call that raised seeks back to where the call before it began.
Invoke_Rewinding(op, arg, out) ==
    /\ last' = Called(op, arg, pos, out)
    /\ pos' = IF out.ok THEN out.pos ELSE last.start
    /\ UNCHANGED << data, cls, runs, stack, ret, player_info >>

Invoke(op, arg, out) ==
    /\ last' = Called(op, arg, pos, out)
    /\ pos' = out.pos
    /\ UNCHANGED << data, cls, runs, stack, ret, player_info >>

MaxSeqChunks == 2

SeqChunks == Chunks \cup { << 13, 0, 0 >> }

SeqBuffers ==
    { Flatten(cs) : cs \in UNION { [1..n -> SeqChunks] : n \in 0..MaxSeqChunks } }

InitSeq ==
    /\ data \in SeqBuffers
    /\ cls \in Readers
    /\ pos = 0
    /\ last = NoCall
    /\ runs = << >>
    /\ stack = << >>
    /\ ret = NoRet
    /\ player_info = << >>

Seq_read_ubyte == Invoke("read_ubyte", 0, read_ubyte(data, pos))
Seq_read_int == Invoke("read_int", 0, read_int(data, pos))
Seq_read_long == Invoke("read_long", 0, read_long(data, pos))
Seq_read_string == Invoke("read_string", 0, read_string(data, pos))
Seq_read_byte == cls \in Classes /\ Invoke("read_byte", 0, read_byte(data, pos))
Seq_read_short == cls \in Classes /\ Invoke("read_short", 0, read_short(data, pos))
Seq_read_float == cls \in Classes /\ Invoke("read_float", 0, read_float(data, pos))
Seq_read_double == cls \in Classes /\ Invoke("read_double", 0, read_double(data, pos))
Seq_read_tag ==
    cls \in Classes /\ \E t \in TagTypes : Invoke("read_tag", t, read_tag(cls, data, pos, t))
Seq_read_list == cls \in Classes /\ Invoke("read_list", 0, read_list(cls, data, pos))
Seq_read_compound ==
    cls \in Classes /\ Invoke("read_compound", 0, read_compound(cls, data, pos))
Seq_read_root == cls \in Classes /\ Invoke("read_root", 0, read_root(cls, data, pos))
Seq_skip_tag ==
    cls = "detailed" /\ \E t \in TagTypes : Invoke("skip_tag", t, skip_tag(data, pos, t))
Seq_skip_compound ==
    cls = "detailed" /\ Invoke("skip_compound", 0, skip_compound(data, pos))

NextSeq ==
    \/ Seq_read_ubyte
    \/ Seq_read_int
    \/ Seq_read_long
    \/ Seq_read_string
    \/ Seq_read_byte
    \/ Seq_read_short
    \/ Seq_read_float
    \/ Seq_read_double
    \/ Seq_read_tag
    \/ Seq_read_list
    \/ Seq_read_compound
    \/ Seq_read_root
    \/ Seq_skip_tag
    \/ Seq_skip_compound

SpecSeq == InitSeq /\ [][NextSeq]_vars

(***************************************************************************)
(* Runs of search_for_owners on one DetailedNBTReader, as the script's     *)
(* main part does it, over buffers that hold a root compound with nested   *)
(* compounds, keyword-named and other entries, and cut-off forms of these. *)
(***************************************************************************)
MaxNest == 6
MaxFound == 2

\* A name as it is written: two length bytes, then the text.
NameBytes(text) == << 0, Len(text) >> \o text

Name_Owner == NameBytes(<< 79, 119, 110, 101, 114 >>)
Name_thrower == NameBytes(<< 116, 104, 114, 111, 119, 101, 114 >>)
Name_xSOURCE == NameBytes(<< 120, 83, 79, 85, 82, 67, 69 >>)
Name_player == NameBytes(<< 112, 108, 97, 121, 101, 114 >>)
Name_a == NameBytes(<< 97 >>)

SearchEntries ==
    { << TAG_String >> \o Name_Owner \o << 0, 1, 97 >>,
      << TAG_Int >> \o Name_thrower \o << 0, 0, 0, 42 >>,
      << TAG_Long >> \o Name_xSOURCE \o << 255, 255, 255, 255, 255, 255, 255, 214 >>,
      << TAG_Byte >> \o Name_player \o << 5 >>,
      << TAG_String >> \o Name_a \o << 0, 1, 98 >>,
      << TAG_List >> \o Name_a \o << TAG_Compound, 0, 0, 0, 1 >>
          \o << TAG_String >> \o Name_Owner \o << 0, 1, 97 >> \o << 0 >>,
      << TAG_Compound >> \o Name_Owner
          \o << TAG_String >> \o Name_player \o << 0, 0 >> \o << 0 >> }

RECURSIVE Opens(_)
Opens(d) == IF d <= 0 THEN << >> ELSE << TAG_Compound, 0, 0 >> \o Opens(d - 1)

Ends(c) == [i \in 1..c |-> TAG_End]

NestedBuffers ==
    { << TAG_Compound, 0, 0 >> \o Opens(d) \o Flatten(es) \o Ends(c) \o after
        : d \in 0..MaxNest,
          es \in UNION { [1..k -> SearchEntries] : k \in 0..MaxFound },
          c \in 0..(MaxNest + 1),
          after \in { << >>, << TAG_Int >> \o Name_Owner \o << 0, 0, 1, 0 >> \o << 0 >> } }

CutBuffers ==
    UNION { { SubSeq(b, 1, k) : k \in 0..Len(b) }
              : b \in { << TAG_Compound, 0, 0 >> \o Opens(1) \o e \o << 0, 0 >>
                          : e \in SearchEntries } }

SearchBuffers ==
    NestedBuffers \cup CutBuffers
        \cup { << TAG_String >> \o Name_Owner \o << 0, 1, 97 >>, << TAG_End >>, << 13, 10, 0, 0 >> }

InitSearch ==
    /\ data \in SearchBuffers
    /\ cls = "detailed"
    /\ pos = 0
    /\ last = NoCall
    /\ runs = << >>
    /\ stack = << >>
    /\ ret = NoRet
    /\ player_info = << >>

\* The observation fields of a search, under the fields every outcome has.
Searched(s) ==
    [ok |-> TRUE, val |-> None, err |-> "none", pos |-> s.pos, depth |-> 0, lax |-> FALSE,
     types |-> s.types, deepest |-> s.deepest, guarded |-> s.guarded,
     ended |-> s.ended, strayed |-> s.strayed]

Ran(s) ==
    /\ last' = Called("search_for_owners", 0, pos, Searched(s))
    /\ pos' = s.pos
    /\ player_info' = s.info
    /\ UNCHANGED << data, cls, runs, stack, ret >>

Search_search_for_owners ==
    cls = "detailed" /\ Ran(search_for_owners(data, pos, player_info))

NextSearch == Search_search_for_owners

SpecSearch == InitSearch /\ [][NextSearch]_vars

(***************************************************************************)
(* The wire format as the claims read it, from the bytes alone.            *)
(***************************************************************************)
U16At(d, p) == d[p + 1] * 256 + d[p + 2]

\* A string at offset p whose declared length exceeds what follows its prefix.
StringTruncatedAt(d, p) == p + 2 <= Len(d) /\ U16At(d, p) > Len(d) - (p + 2)

\* A string at offset p that is all there.
StringCompleteAt(d, p) == p + 2 <= Len(d) /\ U16At(d, p) <= Len(d) - (p + 2)

\* A 32-bit count at offset p with its sign bit set.
NegativeCountAt(d, p) == p + 4 <= Len(d) /\ d[p + 1] >= 128

\* A 32-bit count at offset p that is greater than 0.
PositiveCountAt(d, p) ==
    /\ p + 4 <= Len(d)
    /\ d[p + 1] < 128
    /\ \E i \in 1..4 : d[p + i] # 0

UnknownType(t) == t \notin 0..12

Did(op) == last.op = op

(***************************************************************************)
(* C1: a string (a String tag's payload, or a name) whose declared length  *)
(* exceeds the bytes remaining after its length prefix makes read_string,  *)
(* read_tag(TAG_String) and read_root end in an error.                     *)
(* The code returns the bytes that are there: stream.read(length) returns  *)
(* a short result and nothing checks it.                                   *)
(***************************************************************************)
C1_TruncatedStringFails ==
    /\ (Did("read_string") /\ StringTruncatedAt(data, last.start))
          => ~last.out.ok
    /\ (Did("read_tag") /\ last.arg = TAG_String /\ StringTruncatedAt(data, last.start))
          => ~last.out.ok
    /\ (Did("read_root") /\ Len(data) >= 1 /\ data[1] # TAG_End
            /\ StringTruncatedAt(data, 1))
          => ~last.out.ok
    /\ (Did("read_root") /\ Len(data) >= 1 /\ data[1] = TAG_String
            /\ StringCompleteAt(data, 1)
            /\ StringTruncatedAt(data, 3 + U16At(data, 1)))
          => ~last.out.ok

(***************************************************************************)
(* C2: a List, ByteArray, IntArray or LongArray whose 32-bit count has its *)
(* sign bit set fails to decode.                                           *)
(* The code hands the count to range(), which is empty for a negative      *)
(* number: the tag decodes to the empty list.                              *)
(***************************************************************************)
C2_NegativeCountFails ==
    /\ (Did("read_tag")
            /\ last.arg \in { TAG_Byte_Array, TAG_Int_Array, TAG_Long_Array }
            /\ NegativeCountAt(data, last.start))
          => ~last.out.ok
    /\ ((Did("read_list") \/ (Did("read_tag") /\ last.arg = TAG_List))
            /\ NegativeCountAt(data, last.start + 1))
          => ~last.out.ok

(***************************************************************************)
(* C3: for every maximum depth d >= 1, a decode in which a read_list or    *)
(* read_compound call was active at a nesting depth greater than d ends in *)
(* an error (DepthExceeded).                                               *)
(* The code keeps no depth: it decodes whatever nesting the buffer holds.  *)
(***************************************************************************)
DepthLimits == 1..MaxChunks

C3_DepthGuard ==
    \A d \in DepthLimits : last.out.depth > d => ~last.out.ok

(***************************************************************************)
(* C4: a tag-type byte outside 0..12, read as the root type, as a compound *)
(* entry type or as the element type of a list with count > 0 (or handed   *)
(* to read_tag), ends the decode in an error in every reader.              *)
(* snowball_timeline.NBTReader.read_tag has no else branch and returns     *)
(* None for such a type.                                                   *)
(***************************************************************************)
C4_UnknownTagFails ==
    /\ (Did("read_tag") /\ UnknownType(last.arg)) => ~last.out.ok
    /\ ((Did("read_root") \/ Did("read_compound"))
            /\ Len(data) >= 1 /\ UnknownType(data[1]))
          => ~last.out.ok
    /\ (Did("read_list") /\ Len(data) >= 1 /\ UnknownType(data[1])
            /\ PositiveCountAt(data, 1))
          => ~last.out.ok

(***************************************************************************)
(* C5: decode is all-or-nothing: a read_root that went on after a short    *)
(* read, a negative count or an unknown tag type returns no tree.          *)
(***************************************************************************)
C5_AllOrNothing ==
    (Did("read_root") /\ last.out.lax) => ~last.out.ok

(***************************************************************************)
(* C8: on a buffer whose first byte is TAG_End, read_root returns the      *)
(* empty-document result (None) without an error and consumes exactly that *)
(* one byte.                                                               *)
(***************************************************************************)
C8_EmptyRoot ==
    (Did("read_root") /\ Len(data) >= 1 /\ data[1] = TAG_End)
        => (last.out.ok /\ last.out.val = None /\ last.out.pos = 1 /\ pos = 1)

C8_Witness ==
    /\ Did("read_root")
    /\ Len(data) >= 3
    /\ data[1] = TAG_End
    /\ last.out.val = None
    /\ pos = 1

(***************************************************************************)
(* C9: a caller of read_root that gets the empty-document result without   *)
(* an error does not take its failure path.                                *)
(* analyze_mcc_file tests `if not nbt_data`, which None satisfies, and     *)
(* reports "Could not parse NBT data".                                     *)
(***************************************************************************)
C9_EmptyDocumentIsNoFailure ==
    (Did("analyze_mcc_file") /\ last.out.ok /\ last.out.val = None)
        => last.path # "could_not_parse"

(***************************************************************************)
(* C10: a root of type Compound with name n whose payload begins with an   *)
(* End byte decodes to {n: {}}, the stream left after that End byte; and   *)
(* every root that is not End and decodes yields exactly one (name, value) *)
(* pair: the name read after the type byte and the value read for that     *)
(* type after the name.                                                    *)
(***************************************************************************)
C10_RootPair ==
    /\ (Did("read_root") /\ Len(data) >= 1 /\ data[1] = TAG_Compound
            /\ StringCompleteAt(data, 1)
            /\ 3 + U16At(data, 1) < Len(data)
            /\ data[3 + U16At(data, 1) + 1] = TAG_End)
          => /\ last.out.ok
             /\ last.out.val =
                  DictV(<< [name |-> StrV(Utf8Decode(SubSeq(data, 4, 3 + U16At(data, 1)))),
                            val |-> DictV(<< >>)] >>)
             /\ last.out.pos = 3 + U16At(data, 1) + 1
    /\ (Did("read_root") /\ Len(data) >= 1 /\ data[1] # TAG_End /\ last.out.ok)
          => /\ last.out.val.k = "dict"
             /\ Len(last.out.val.e) = 1
             /\ last.out.val.e[1].name = read_string(data, 1).val
             /\ last.out.val.e[1].val =
                  read_tag(cls, data, read_string(data, 1).pos, data[1]).val
             /\ last.out.pos = read_tag(cls, data, read_string(data, 1).pos, data[1]).pos

C10_Witness ==
    /\ Did("read_root")
    /\ data = << 10, 0, 1, 97, 0 >>
    /\ last.out.val = DictV(<< [name |-> StrV(<< 97 >>), val |-> DictV(<< >>)] >>)
    /\ pos = 5

Total(out) ==
    \/ /\ out.ok
       /\ out.err = "none"
       /\ out.val.k \in { "dict", "none" }
    \/ /\ ~out.ok
       /\ out.err \in { "struct.error", "ValueError" }
       /\ out.val = None

SameOutcome(a, b) ==
    a.ok = b.ok /\ a.val = b.val /\ a.err = b.err /\ a.pos = b.pos

C7_TotalAndTerminating ==
    /\ <>Done
    /\ [](Done => (Total(last.out) /\ SameOutcome(last.out, read_root(cls, data, 0))))

C7_Witness ==
    /\ Done
    /\ last.out.ok
    /\ last.out.val.k = "dict"
    /\ last.out.val.e[1].val.k = "dict"
    /\ Len(last.out.val.e[1].val.e) = 1
    /\ pos = Len(data)

\* The signed 32-bit big-endian number in the 4 bytes after offset p.
I32At(d, p) ==
    (IF d[p + 1] < 128 THEN d[p + 1] ELSE d[p + 1] - 256) * 16777216
        + d[p + 2] * 65536 + d[p + 3] * 256 + d[p + 4]

\* The outcomes of decoding up to n payloads of type t one after another
\* from offset p on, stopping after the first that fails.
RECURSIVE PayloadsAt(_, _, _, _, _)
PayloadsAt(c, d, p, t, n) ==
    IF n <= 0 THEN << >>
    ELSE LET r == read_tag(c, d, p, t)
         IN  IF r.ok THEN << r >> \o PayloadsAt(c, d, r.pos, t, n - 1) ELSE << r >>

WellFormedPayloads(ps, n) ==
    Len(ps) = n /\ \A i \in 1..n : ps[i].ok /\ ~ps[i].lax

ListCall == Did("read_list") \/ (Did("read_tag") /\ last.arg = TAG_List)

(***************************************************************************)
(* C11: a list of element type T in 1..12 and count n >= 0 that is         *)
(* followed by n well-formed payloads of type T decodes to exactly n       *)
(* elements, the i-th being the value of the i-th payload, and the stream  *)
(* is left after the last payload; for element type Int the elements are   *)
(* the n big-endian signed numbers of the 4n bytes after the count.        *)
(***************************************************************************)
C11_ListElements ==
    /\ (ListCall /\ Len(data) >= 5 /\ data[1] \in 1..12 /\ I32At(data, 1) >= 0
            /\ WellFormedPayloads(PayloadsAt(cls, data, 5, data[1], I32At(data, 1)),
                                  I32At(data, 1)))
          => LET n == I32At(data, 1)
                 ps == PayloadsAt(cls, data, 5, data[1], n)
             IN  /\ last.out.ok
                 /\ last.out.val = ListV([i \in 1..n |-> ps[i].val])
                 /\ last.out.pos = IF n = 0 THEN 5 ELSE ps[n].pos
    /\ (ListCall /\ Len(data) >= 5 /\ data[1] = TAG_Int /\ I32At(data, 1) >= 0
            /\ I32At(data, 1) <= Len(data) /\ 5 + 4 * I32At(data, 1) <= Len(data))
          => /\ last.out.ok
             /\ last.out.val =
                    ListV([i \in 1..I32At(data, 1) |-> IntV(I32At(data, 5 + 4 * (i - 1)))])
             /\ last.out.pos = 5 + 4 * I32At(data, 1)

C11_Witness ==
    /\ Did("read_list")
    /\ Len(data) = 17
    /\ data[1] = TAG_Int
    /\ I32At(data, 1) = 3
    /\ last.out.val = ListV(<< IntV(42), IntV(256), IntV(-42) >>)
    /\ pos = 17

\* The w bytes (w <= 4) of the two's-complement big-endian form of v.
BytesOf(v, w) == [i \in 1..w |-> (v \div 256 ^ (w - i)) % 256]

\* The 8 bytes of a long as the model holds it.
LongBytes(v) ==
    IF v.k = "int"
    THEN (IF v.i < 0 THEN << 255, 255, 255, 255 >> ELSE << 0, 0, 0, 0 >>) \o BytesOf(v.i, 4)
    ELSE BytesOf(v.hi, 4) \o BytesOf(v.lo[1], 2) \o BytesOf(v.lo[2], 2)

(***************************************************************************)
(* C12: read_int returns the number whose 32-bit two's-complement          *)
(* big-endian form is the 4 bytes read (negative exactly when the first    *)
(* byte is 128 or more), so 00 00 00 2A gives 42; read_byte, read_short    *)
(* and read_long do the same at widths 1, 2 and 8.                         *)
(***************************************************************************)
C12_BigEndianSigned ==
    /\ (Did("read_int") /\ Len(data) >= 4)
          => /\ last.out.ok /\ last.out.pos = 4
             /\ last.out.val.k = "int"
             /\ BytesOf(last.out.val.i, 4) = SubSeq(data, 1, 4)
             /\ (last.out.val.i < 0) = (data[1] >= 128)
    /\ (Did("read_int") /\ data = << 0, 0, 0, 42 >>) => last.out.val = IntV(42)
    /\ (Did("read_byte") /\ Len(data) >= 1)
          => /\ last.out.ok /\ last.out.pos = 1
             /\ last.out.val.k = "int"
             /\ last.out.val.i \in -128..127
             /\ BytesOf(last.out.val.i, 1) = SubSeq(data, 1, 1)
    /\ (Did("read_short") /\ Len(data) >= 2)
          => /\ last.out.ok /\ last.out.pos = 2
             /\ last.out.val.k = "int"
             /\ last.out.val.i \in -32768..32767
             /\ BytesOf(last.out.val.i, 2) = SubSeq(data, 1, 2)
    /\ (Did("read_long") /\ Len(data) >= 8)
          => /\ last.out.ok /\ last.out.pos = 8
             /\ last.out.val.k \in { "int", "bigint" }
             /\ LongBytes(last.out.val) = SubSeq(data, 1, 8)

C12_Witness ==
    /\ Did("read_int")
    /\ data = << 255, 255, 255, 214 >>
    /\ last.out.val = IntV(-42)
    /\ pos = 4

\* The bytes left in the stream when the last call began.
LeftAtStart == Len(data) - last.start

\* The payload width of a fixed-width tag type.
WidthOf(t) ==
    IF t = TAG_Byte THEN 1
    ELSE IF t = TAG_Short THEN 2
    ELSE IF t \in { TAG_Int, TAG_Float } THEN 4
    ELSE 8

(***************************************************************************)
(* C13: a fixed-width primitive read (Byte, Short, Int, Long, Float,       *)
(* Double, the tag-type byte), whether it decodes the value or skips it,   *)
(* ends in an error when fewer bytes remain than its width.                *)
(* DetailedNBTReader.skip_tag skips such a payload with stream.read(n) and *)
(* never looks at what came back: it returns normally on a short buffer.   *)
(***************************************************************************)
C13_ShortReadFails ==
    /\ ((Did("read_byte") \/ Did("read_ubyte")) /\ LeftAtStart < 1) => ~last.out.ok
    /\ (Did("read_short") /\ LeftAtStart < 2) => ~last.out.ok
    /\ ((Did("read_int") \/ Did("read_float")) /\ LeftAtStart < 4) => ~last.out.ok
    /\ ((Did("read_long") \/ Did("read_double")) /\ LeftAtStart < 8) => ~last.out.ok
    /\ ((Did("read_tag") \/ Did("skip_tag")) /\ last.arg \in 1..6
            /\ LeftAtStart < WidthOf(last.arg))
          => ~last.out.ok
    /\ ((Did("read_compound") \/ Did("skip_compound") \/ Did("read_root")
            \/ Did("read_list"))
            /\ LeftAtStart < 1)
          => ~last.out.ok

(***************************************************************************)
(* C14: the reader is forward-only.  Over any sequence of calls on one     *)
(* reader, failed reads and skips included, no call makes the stream       *)
(* position smaller, and no call changes anything of the reader but that   *)
(* position: the bytes and player_info stay as they are.                   *)
(***************************************************************************)
C14_ForwardOnly ==
    [][/\ pos' >= pos
       /\ pos' <= Len(data)
       /\ data' = data
       /\ cls' = cls
       /\ player_info' = player_info]_vars

C14_Witness ==
    /\ last.op \in { "read_int", "skip_tag", "read_compound" }
    /\ ~last.out.ok
    /\ last.start > 0
    /\ pos > last.start
    /\ pos = Len(data)

CompoundCall ==
    \/ Did("read_compound")
    \/ Did("skip_compound")
    \/ ((Did("read_tag") \/ Did("skip_tag")) /\ last.arg = TAG_Compound)

\* The value a reader of class c reads or skips for type t at offset p.
ValueAt(c, d, p, t) ==
    IF c = "detailed" THEN skip_tag(d, p, t) ELSE read_tag(c, d, p, t)

\* The offset of the first End type byte at the nesting level of the
\* entries that begin at offset p: each entry before it is a type byte, a
\* name and a value.  -1 when the entries break off before such a byte.
RECURSIVE OwnEnd(_, _, _)
OwnEnd(c, d, p) ==
    IF p >= Len(d) THEN -1
    ELSE IF d[p + 1] = TAG_End THEN p
    ELSE LET name == read_string(d, p + 1)
         IN  IF ~name.ok THEN -1
             ELSE LET v == ValueAt(c, d, name.pos, d[p + 1])
                  IN  IF ~v.ok THEN -1 ELSE OwnEnd(c, d, v.pos)

(***************************************************************************)
(* C15: a compound is closed by the first End type byte at its own nesting *)
(* level.  read_compound and skip_compound return exactly when there is    *)
(* such a byte, consume it and nothing after it (no name, no payload), and *)
(* leave the stream on the byte after it; an End byte that closes a nested *)
(* compound does not close the compound around it.                         *)
(***************************************************************************)
C15_ClosedByOwnEnd ==
    /\ CompoundCall
          => /\ last.out.ok = (OwnEnd(cls, data, last.start) >= 0)
             /\ last.out.ok
                  => /\ pos = OwnEnd(cls, data, last.start) + 1
                     /\ data[pos] = TAG_End
    /\ (CompoundCall /\ LeftAtStart >= 1 /\ data[last.start + 1] = TAG_End)
          => /\ last.out.ok
             /\ pos = last.start + 1
             /\ Did("read_compound") => last.out.val = DictV(<< >>)
    /\ (CompoundCall /\ LeftAtStart >= 4
            /\ data[last.start + 1] = TAG_Compound
            /\ U16At(data, last.start + 1) = 0
            /\ data[last.start + 4] = TAG_End)
          => IF LeftAtStart >= 5 /\ data[last.start + 5] = TAG_End
             THEN last.out.ok /\ pos = last.start + 5
             ELSE ~(last.out.ok /\ pos <= last.start + 5)

C15_Witness ==
    /\ Did("read_compound")
    /\ last.start = 0
    /\ data = << 10, 0, 0, 0, 0, 0, 2 >>
    /\ last.out.val = DictV(<< [name |-> StrV(<< >>), val |-> DictV(<< >>)] >>)
    /\ pos = 5

\* The (name, value) entries read one after another from offset p on, up
\* to the End type byte or to the first entry that cannot be read.
RECURSIVE EntriesRead(_, _, _)
EntriesRead(c, d, p) ==
    IF p >= Len(d) \/ d[p + 1] = TAG_End THEN << >>
    ELSE LET name == read_string(d, p + 1)
         IN  IF ~name.ok THEN << >>
             ELSE LET v == read_tag(c, d, name.pos, d[p + 1])
                  IN  IF ~v.ok THEN << >>
                      ELSE << [name |-> name.val, val |-> v.val] >>
                               \o EntriesRead(c, d, v.pos)

\* The entries no later entry of the same name replaces, in the order read.
RECURSIVE Survivors(_)
Survivors(es) ==
    IF es = << >> THEN << >>
    ELSE IF \E j \in 2..Len(es) : es[j].name = es[1].name THEN Survivors(Tail(es))
    ELSE << es[1] >> \o Survivors(Tail(es))

(***************************************************************************)
(* C16: iterating a decoded compound yields its entries in the order they  *)
(* were read from the stream, also when a name is repeated: the surviving  *)
(* entry (the last one of that name) stands where it was read.             *)
(* The code stores into a dict: a repeated name keeps the place of its     *)
(* first occurrence, ahead of entries that were read before the surviving  *)
(* value.                                                                  *)
(***************************************************************************)
C16_ReadOrder ==
    (Did("read_compound") /\ last.out.ok)
        => last.out.val.e = Survivors(EntriesRead(cls, data, last.start))

(***************************************************************************)
(* C17: when a name occurs more than once in one compound, the decoded     *)
(* mapping has exactly one entry of that name, with the value of the last  *)
(* occurrence; the payloads of the earlier occurrences are consumed: the   *)
(* stream is left after the End byte that closes the compound.             *)
(***************************************************************************)
C17_LastWriteWins ==
    (Did("read_compound") /\ last.out.ok)
        => LET es == EntriesRead(cls, data, last.start)
               got == last.out.val.e
           IN  /\ \A i \in 1..Len(es) :
                     /\ Cardinality({ j \in 1..Len(got) : got[j].name = es[i].name }) = 1
                     /\ (\A k \in (i + 1)..Len(es) : es[k].name # es[i].name)
                          => \E j \in 1..Len(got) : got[j] = es[i]
               /\ \A j \in 1..Len(got) : \E i \in 1..Len(es) : es[i].name = got[j].name
               /\ pos = OwnEnd(cls, data, last.start) + 1

C17_Witness ==
    /\ Did("read_compound")
    /\ data = << 1, 0, 1, 97, 5, 1, 0, 1, 98, 5, 1, 0, 1, 97, 7, 0, 9 >>
    /\ last.out.val = DictV(<< [name |-> StrV(<< 97 >>), val |-> IntV(7)],
                               [name |-> StrV(<< 98 >>), val |-> IntV(5)] >>)
    /\ pos = 16

\* Whether a decoded value is, or holds somewhere, a None.
RECURSIVE ContainsNone(_)
ContainsNone(v) ==
    IF v.k \in { "none", "nones" } THEN TRUE
    ELSE IF v.k = "list" THEN \E i \in 1..Len(v.v) : ContainsNone(v.v[i])
    ELSE IF v.k = "dict" THEN \E i \in 1..Len(v.e) : ContainsNone(v.e[i].val)
    ELSE FALSE

(***************************************************************************)
(* C18: a list whose element type is End and whose count is greater than 0 *)
(* is rejected with an error, and no tree that read_root returns holds a   *)
(* None as a list element or compound member.                              *)
(* read_tag returns None for TAG_End without reading, so such a list       *)
(* decodes to count times None.                                            *)
(***************************************************************************)
C18_EndListRejected ==
    /\ (ListCall /\ LeftAtStart >= 5 /\ data[last.start + 1] = TAG_End
            /\ PositiveCountAt(data, last.start + 1))
          => ~last.out.ok
    /\ (Did("read_root") /\ last.out.ok /\ last.out.val.k = "dict")
          => ~ContainsNone(last.out.val)

\* A call that reads or skips a list starting at the stream position.
ListCallOrSkip == ListCall \/ (Did("skip_tag") /\ last.arg = TAG_List)

(***************************************************************************)
(* C19: a list with count 0 (five bytes: any element-type byte, End, 1..12 *)
(* or another value, then 00 00 00 00) is read without error, as the empty *)
(* sequence when it is decoded, and leaves the stream exactly 5 bytes      *)
(* further, whether read_list / read_tag(TAG_List) decodes it or skip_tag  *)
(* skips it.                                                               *)
(***************************************************************************)
C19_EmptyList ==
    (ListCallOrSkip /\ LeftAtStart >= 5 /\ I32At(data, last.start + 1) = 0)
        => /\ last.out.ok
           /\ last.out.pos = last.start + 5
           /\ pos = last.start + 5
           /\ ListCall => last.out.val = ListV(<< >>)

C19_Witness ==
    /\ Did("read_list")
    /\ LeftAtStart >= 5
    /\ UnknownType(data[last.start + 1])
    /\ I32At(data, last.start + 1) = 0
    /\ last.out.ok
    /\ last.out.val = ListV(<< >>)
    /\ pos = last.start + 5

ArrayCall == Did("read_tag") /\ last.arg \in { TAG_Byte_Array, TAG_Int_Array, TAG_Long_Array }

\* The element width of an array tag type.
ElementWidth(t) ==
    IF t = TAG_Byte_Array THEN 1 ELSE IF t = TAG_Int_Array THEN 4 ELSE 8

\* Whether v is what the w bytes of d after offset p stand for.
ElementIs(v, d, p, w) ==
    IF w = 1 THEN v = IntV(IF d[p + 1] < 128 THEN d[p + 1] ELSE d[p + 1] - 256)
    ELSE IF w = 4 THEN v = IntV(I32At(d, p))
    ELSE LongBytes(v) = SubSeq(d, p + 1, p + 8)

\* A count n >= 0 at the start of the call with n elements of width w after it.
ArrayFits(n, w) ==
    /\ LeftAtStart >= 4
    /\ n >= 0
    /\ n <= LeftAtStart
    /\ 4 + n * w <= LeftAtStart

(***************************************************************************)
(* C20: read_tag on a Byte Array, Int Array or Long Array whose count n is *)
(* at least 0 and is followed by at least n elements' bytes returns        *)
(* exactly n elements, the i-th decoded from the i-th group of 1, 4 or 8   *)
(* bytes after the count, and leaves the stream 4 + n*width bytes further. *)
(***************************************************************************)
C20_Arrays ==
    (ArrayCall /\ ArrayFits(I32At(data, last.start), ElementWidth(last.arg)))
        => LET n == I32At(data, last.start)
               w == ElementWidth(last.arg)
           IN  /\ last.out.ok
               /\ last.out.val.k = "list"
               /\ Len(last.out.val.v) = n
               /\ \A i \in 1..n :
                      ElementIs(last.out.val.v[i], data, last.start + 4 + (i - 1) * w, w)
               /\ last.out.pos = last.start + 4 + n * w
               /\ pos = last.start + 4 + n * w

C20_Witness ==
    /\ Did("read_tag")
    /\ last.arg = TAG_Int_Array
    /\ Len(data) = 16
    /\ I32At(data, 0) = 3
    /\ last.out.val = ListV(<< IntV(I32At(data, 4)), IntV(I32At(data, 8)),
                               IntV(I32At(data, 12)) >>)
    /\ I32At(data, 4) # I32At(data, 8)
    /\ pos = 16

\* The L bytes after the length prefix of the string the last call began at.
StringPayload == SubSeq(data, last.start + 3, last.start + 2 + U16At(data, last.start))

Equivalent(a, b) ==
    /\ a.ok = b.ok
    /\ a.ok => a.val = b.val
    /\ a.pos = b.pos

(***************************************************************************)
(* C22: read_root of complete_mcc_reader.NBTReader and read_root of        *)
(* snowball_timeline.NBTReader give, on every buffer, the same tree or     *)
(* both an error, and leave the stream at the same position.               *)
(* The two read_tag differ on a tag type outside 0..12: the first raises   *)
(* ValueError, the second falls off its elif chain and returns None.       *)
(***************************************************************************)
C22_SameReaders ==
    Did("read_root")
        => Equivalent(read_root("complete", data, last.start),
                      read_root("snowball", data, last.start))

(***************************************************************************)
(* C23: for every tag type 0..12, at every position of every buffer,       *)
(* DetailedNBTReader.skip_tag leaves the stream where NBTReader.read_tag   *)
(* leaves it, and does not return normally when read_tag ends in an error. *)
(* skip_tag skips fixed-width payloads and array bodies with a bare        *)
(* stream.read(n): a short read is no error, and a negative n reads to the *)
(* end of the stream where read_tag reads nothing.                         *)
(***************************************************************************)
C23_SkipMatchesRead ==
    (Did("skip_tag") /\ last.arg \in 0..12)
        => /\ last.out.pos = read_tag("complete", data, last.start, last.arg).pos
           /\ ~read_tag("complete", data, last.start, last.arg).ok => ~last.out.ok

\* The first k bytes of the buffer.
Prefix(k) == SubSeq(data, 1, k)

(***************************************************************************)
(* C24: when read_root decodes a buffer B without error, it decodes B      *)
(* followed by any further bytes S to the same tree and stops at the same  *)
(* position: whatever follows the root tag's payload is not read.  Stated  *)
(* for every split of the buffer decoded into a prefix B and the rest S.   *)
(* A string or array cut short by the end of B decodes without error, and  *)
(* then takes its missing bytes from S.                                    *)
(***************************************************************************)
C24_SuffixIgnored ==
    (Did("read_root") /\ last.start = 0)
        => \A k \in 0..Len(data) :
               read_root(cls, Prefix(k), 0).ok
                   => /\ last.out.ok
                      /\ last.out.val = read_root(cls, Prefix(k), 0).val
                      /\ last.out.pos = read_root(cls, Prefix(k), 0).pos

(***************************************************************************)
(* C25: in every run of search_for_owners, search_compound runs its loop   *)
(* at depth 5 at most (a compound met at depth 5 is skipped, not           *)
(* searched), the depth > max_depth return is never taken, and every       *)
(* nested compound's search or skip comes back to the loop with the stream *)
(* just after that compound's End byte.                                    *)
(* A nested search_compound catches the exception of a read at the end of  *)
(* the stream and returns normally, so its caller's loop goes on at the    *)
(* end of the buffer, where no End byte was read.                          *)
(***************************************************************************)
C25_DepthAndResume ==
    Did("search_for_owners")
        => /\ last.out.deepest <= RecurseBelow
           /\ ~last.out.guarded
           /\ ~last.out.strayed

IsPrefix(s, t) == Len(s) <= Len(t) /\ SubSeq(t, 1, Len(s)) = s

\* The text of a name written as two length bytes and the text.
TextOf(name) == SubSeq(name, 3, Len(name))

Record(name, v) == DictV(<< [name |-> StrV(TextOf(name)), val |-> v] >>)

\* What the claim lets one entry of SearchEntries, met in a searched
\* compound, add to player_info, read off the entry's bytes.
RecordsOf(e) ==
    IF e[1] = TAG_String /\ IsPrefix(Name_Owner, Tail(e)) THEN << Record(Name_Owner, StrV(<< 97 >>)) >>
    ELSE IF e[1] = TAG_Int /\ IsPrefix(Name_thrower, Tail(e)) THEN << Record(Name_thrower, IntV(42)) >>
    ELSE IF e[1] = TAG_Long /\ IsPrefix(Name_xSOURCE, Tail(e)) THEN << Record(Name_xSOURCE, IntV(-42)) >>
    ELSE << >>

RECURSIVE RecordsOfAll(_)
RecordsOfAll(es) == IF es = << >> THEN << >> ELSE RecordsOf(Head(es)) \o RecordsOfAll(Tail(es))

\* The number of compounds opened with an empty name at the start of b.
RECURSIVE OpensIn(_)
OpensIn(b) ==
    IF IsPrefix(<< TAG_Compound, 0, 0 >>, b) THEN 1 + OpensIn(SubSeq(b, 4, Len(b))) ELSE 0

\* The entries of SearchEntries that b begins with, one after another.
RECURSIVE EntriesIn(_)
EntriesIn(b) ==
    IF \E e \in SearchEntries : IsPrefix(e, b)
    THEN LET e == CHOOSE x \in SearchEntries : IsPrefix(x, b)
         IN  << e >> \o EntriesIn(SubSeq(b, Len(e) + 1, Len(b)))
    ELSE << >>

\* The number of End bytes b begins with.
RECURSIVE EndsIn(_)
EndsIn(b) == IF b # << >> /\ Head(b) = TAG_End THEN 1 + EndsIn(Tail(b)) ELSE 0

\* The entry Owner = 256 followed by an End byte.
OwnerAfter == << TAG_Int >> \o Name_Owner \o << 0, 0, 1, 0 >> \o << 0 >>

\* A buffer read as a root compound with d nested compounds opened, the
\* entries es in the innermost, c End bytes and then perhaps OwnerAfter;
\* shaped says whether the buffer is of that form.
Shape(b) ==
    LET opened == OpensIn(b)
        inner == SubSeq(b, 3 * opened + 1, Len(b))
        es == EntriesIn(inner)
        outer == SubSeq(inner, Len(Flatten(es)) + 1, Len(inner))
        c == EndsIn(outer)
        after == SubSeq(outer, c + 1, Len(outer))
    IN  [shaped |-> opened >= 1 /\ after \in { << >>, OwnerAfter },
         d |-> opened - 1, es |-> es, c |-> c, after |-> after]

\* What the claim lets a first run record on a buffer of that form: entries
\* deeper than 5 are skipped with their compound.
Expected(d, es, c, after) ==
    (IF d <= 5 THEN RecordsOfAll(es) ELSE << >>)
        \o (IF after # << >> /\ c <= d /\ d - c <= 5
            THEN << Record(Name_Owner, IntV(256)) >> ELSE << >>)

C26_Recorded ==
    Did("search_for_owners")
        => /\ last.out.ok
           /\ \A i \in 1..Len(player_info) :
                  /\ player_info[i].k = "dict"
                  /\ Len(player_info[i].e) = 1
                  /\ \E keyword \in Keywords :
                         Contains(Lower(player_info[i].e[1].name.s), keyword)
                  /\ player_info[i].e[1].val.k \in { "str", "int", "bigint" }
           /\ Len(last.out.types) <= Len(player_info)
           /\ \A j \in 1..Len(last.out.types) :
                  LET v == player_info[Len(player_info) - Len(last.out.types) + j].e[1].val
                  IN  /\ last.out.types[j] \in { TAG_String, TAG_Int, TAG_Long }
                      /\ (last.out.types[j] = TAG_String) = (v.k = "str")
           /\ (last.start = 0 /\ Len(last.out.types) = Len(player_info) /\ Shape(data).shaped)
                 => player_info = Expected(Shape(data).d, Shape(data).es, Shape(data).c,
                                           Shape(data).after)

C26_Step ==
    /\ IsPrefix(player_info, player_info')
    /\ (pos < Len(data) /\ data[pos + 1] # TAG_Compound)
          => (pos' = pos + 1 /\ player_info' = player_info)
    /\ pos = Len(data) => (pos' = pos /\ player_info' = player_info)
    /\ pos' >= pos

(***************************************************************************)
(* C26: player_info only grows; every entry a run of search_for_owners     *)
(* appends is one name with its value, the name holding 'owner',           *)
(* 'thrower', 'source' or 'player' in any letter case and the tag being a  *)
(* String, Int or Long; keyword-named entries of other types and whatever  *)
(* is inside a List are skipped and add nothing; when the root type is not *)
(* Compound the run stops after the type byte and adds nothing; and the    *)
(* run never ends in an error.                                             *)
(***************************************************************************)
C26_PlayerInfo == [] C26_Recorded /\ [][C26_Step]_vars

C26_Witness ==
    /\ Did("search_for_owners")
    /\ last.start = 0
    /\ last.out.deepest = 2
    /\ last.out.types = << TAG_String, TAG_Int >>
    /\ player_info = << Record(Name_Owner, StrV(<< 97 >>)), Record(Name_Owner, IntV(256)) >>
    /\ \E i \in 1..(Len(data) - 1) : data[i] = TAG_List /\ data[i + 1] = 0
    /\ last.out.ended = "break"

====
